---- MODULE Spec2Model ----
(***************************************************************************)
(* A model of the TDS dashboard's storage layer (src/utils/storage.py) and *)
(* of the two ingestion paths that feed it (src/ingest/http_server.py and  *)
(* src/ingest/serial_ingest.py).                                           *)
(*                                                                         *)
(* The store is one SQLite file shared by separate operating-system        *)
(* processes: the HTTP server, the serial reader, the Streamlit dashboard  *)
(* and a maintenance job.  Every process imports utils.storage and so owns *)
(* its OWN threading.Lock.  Appends run concurrently with each other and   *)
(* with everything else; of the queries and prunes the model follows one   *)
(* at a time.                                                              *)
(*                                                                         *)
(* Time is counted in minutes.  A timestamp is a TEXT value; it is         *)
(* modelled by the wall-clock reading it spells (rd) and by whether it     *)
(* carries the UTC suffix "Z" (z).  SQLite compares the TEXT, the          *)
(* instant a timestamp denotes is another matter (Instant).                *)
(*                                                                         *)
(* Specifications: Spec is ingestion with the dashboard's range and latest *)
(* queries and pruning; SpecSidebar is ingestion with init_database,       *)
(* get_stats, get_device_list and pruning; SpecExport is ingestion with    *)
(* export_csv; SpecLimit is ingestion with range queries of a small        *)
(* limit; SpecSessions is two sessions of the dashboard under fair         *)
(* scheduling; SpecAll has every operation of the store; SpecQuality is    *)
(* the dashboard's get_water_quality_status (src/dashboard/app.py) on its  *)
(* own.                                                                    *)
(***************************************************************************)
EXTENDS Integers, Sequences, FiniteSets, TLC

\* ---------------------------------------------------------------- bounds
\* Appends the model lets happen (ids 1..MaxRows).
MaxRows == 2
\* The UTC clock runs from 0 to MaxClock minutes.
MaxClock == 1

\* ------------------------------------------------------------- constants
\* export_csv, clear_old_readings: a day is 24 * 60 minutes.
DayMinutes == 1440

\* The host's offsets of local time from UTC, in minutes (datetime.now() is
\* local and naive): a host on UTC and a host one hour ahead.
TzOffsets == {0, 60}

\* ------------------------------------------------------------ the callers
\* "dash" and "dash2" are two browser sessions of the dashboard: Streamlit
\* runs the script of each session on a thread of its own, in one process.
Callers == {"http", "serial", "dash", "dash2", "maint"}

\* The operating-system process a caller runs in.
ProcOf(c) ==
    CASE c = "http" -> "http_server"
      [] c = "serial" -> "serial_ingest"
      [] c = "dash" -> "dashboard"
      [] c = "dash2" -> "dashboard"
      [] OTHER -> "maintenance"

Procs == {ProcOf(c) : c \in Callers}

\* ------------------------------------------------------------- timestamps
\* datetime.isoformat() of a naive local time.
IsoFormat(reading) == [rd |-> reading, z |-> FALSE]

\* A device-reported timestamp "....Z" (UTC).
ZFormat(reading) == [rd |-> reading, z |-> TRUE]

\* SQLite's comparison of two TEXT timestamps (BINARY collation): the
\* fixed-width date and time first; with these equal the naive text is a
\* proper prefix of the text with "Z", and so the smaller.
TextLess(a, b) == \/ a.rd < b.rd
                  \/ (a.rd = b.rd /\ ~a.z /\ b.z)

TextLeq(a, b) == a = b \/ TextLess(a, b)

\* Python's None, and the value of an absent option, is the empty sequence;
\* a present value v is <<v>>.
None == <<>>
Some(v) == <<v>>
IsNone(o) == o = <<>>

\* ----------------------------------------------------------------- inputs

\* Texts that float() accepts, and the number each denotes.
NumericTexts == {"5", "250", "600"}
ParseFloatText(s) == CASE s = "5" -> 5 [] s = "250" -> 250 [] OTHER -> 600

\* A JSON value sent as "tds": null, a number, a string or a list.
TdsJson == {[kind |-> "null", text |-> ""],
            [kind |-> "num", text |-> "250"],
            [kind |-> "str", text |-> "250"],
            [kind |-> "str", text |-> "abc"],
            [kind |-> "list", text |-> ""]}

\* float(x) in receive_tds: the number, or the exception raised.
Float(v) ==
    CASE v.kind = "num" -> [ok |-> TRUE, val |-> ParseFloatText(v.text), exc |-> ""]
      [] v.kind = "str" /\ v.text \in NumericTexts ->
             [ok |-> TRUE, val |-> ParseFloatText(v.text), exc |-> ""]
      [] v.kind = "str" -> [ok |-> FALSE, val |-> 0, exc |-> "ValueError"]
      [] OTHER -> [ok |-> FALSE, val |-> 0, exc |-> "TypeError"]

\* Python truthiness of an optional string: None and "" are falsy.
Truthy(o) == ~IsNone(o) /\ o[1] # ""

\* The serial lines read from the port, as line.split(",") yields them; ts
\* is the fourth part when there is one: a reading taken a day before
\* minute 0, stamped in local time.
SerialLines(offset) ==
    {[parts |-> <<"d1">>, ts |-> None],
     [parts |-> <<"", "250">>, ts |-> None],
     [parts |-> <<"d1", "abc">>, ts |-> None],
     [parts |-> <<"d2", "600", "x">>, ts |-> None],
     [parts |-> <<"d2", "600", "5">>,
      ts |-> Some(IsoFormat(offset - DayMinutes))]}

\* A parser that takes a voltage it cannot read for a missing one.
parse_serial_line_lenient(line) ==
    LET parts == line.parts IN
    IF Len(parts) < 2 THEN None
    ELSE IF parts[2] \notin NumericTexts THEN None
    ELSE Some([device_id |-> parts[1],
               tds |-> ParseFloatText(parts[2]),
               voltage |-> IF Len(parts) > 2 /\ parts[3] \in NumericTexts
                           THEN Some(ParseFloatText(parts[3])) ELSE None,
               timestamp |-> line.ts])

\* parse_serial_line: None, or Some of (device_id, tds, voltage, timestamp).
parse_serial_line(line) ==
    LET parts == line.parts IN
    IF Len(parts) < 2 THEN None
    ELSE IF parts[2] \notin NumericTexts THEN None
    ELSE IF Len(parts) > 2 /\ parts[3] # "" /\ parts[3] \notin NumericTexts THEN None
    ELSE Some([device_id |-> parts[1],
               tds |-> ParseFloatText(parts[2]),
               voltage |-> IF Len(parts) > 2 /\ parts[3] # ""
                           THEN Some(ParseFloatText(parts[3])) ELSE None,
               timestamp |-> line.ts])

\* The JSON bodies posted to /api/tds; a device that sends a timestamp
\* sends the one of minute 0, in UTC.
HttpPayloads ==
    [device_id : {None, Some(""), Some("d1")},
     tds : TdsJson,
     voltage : {None},
     device_ip : {None},
     timestamp : {None, Some(ZFormat(0))}]

\* ------------------------------------------------------------------ state
VARIABLES
    clock,      \* UTC time now, in minutes
    tz,         \* the host's offset of local time from UTC
    rows,       \* the readings table: a set of rows with distinct ids
    seq,        \* sqlite_sequence: the largest id ever assigned
    db_lock,    \* per process: the caller holding its threading.Lock, or None
    conns,      \* the callers with an open sqlite3 connection
    pc,         \* per caller: where it is in its call
    op,         \* per caller: the store operation it is in
    arg,        \* per caller: the arguments and locals of that operation
    result,     \* per caller: what the finished operation gave back
    csv,        \* the export file data/tds_export.csv: None, or its rows
    quality     \* the dashboard's classification of one tds value

vars == <<clock, tz, rows, seq, db_lock, conns, pc, op, arg, result, csv, quality>>

\* datetime.now(): local, naive.
Now == clock + tz

NoArg == [reading |-> None, minutes |-> None, limit |-> 0, device_id |-> None,
          days |-> 0, cutoff |-> None, nulls |-> {}, step |-> 0]

\* The dictionary get_stats builds, before its SELECTs have run.
NoStats == [total_readings |-> 0, total_devices |-> 0, earliest |-> None, latest |-> None]

NoResult == [status |-> "", table |-> <<>>, n |-> 0, stats |-> NoStats, path |-> None]

\* The dashboard with the thresholds of its default configuration and
\* nothing classified yet.  A tds value and a threshold are counted in
\* thousandths of a ppm.
NoQuality == [tds |-> 0, thresholds |-> [good |-> 300000, moderate |-> 600000],
              card |-> "", row |-> ""]

\* No caller has an outcome in hand.  A caller that has its outcome takes
\* it (Return) before anything else moves: the taking is local to the
\* caller, and what an operation gave back does not depend on what the
\* others do afterwards.
Settled == \A c \in Callers : pc[c] \notin {"done", "failed"}

Init ==
    /\ clock = 0
    /\ tz \in TzOffsets
    /\ rows = {}
    /\ seq = 0
    /\ db_lock = [p \in Procs |-> None]
    /\ conns = {}
    /\ pc = [c \in Callers |-> "idle"]
    /\ op = [c \in Callers |-> ""]
    /\ arg = [c \in Callers |-> NoArg]
    /\ result = [c \in Callers |-> NoResult]
    /\ csv = None
    /\ quality = NoQuality

\* Time passes.
Tick ==
    /\ Settled
    /\ clock < MaxClock
    /\ clock' = clock + 1
    /\ UNCHANGED <<quality, csv, tz, rows, seq, db_lock, conns, pc, op, arg, result>>

\* ------------------------------------------------------- append_reading
\* Append calls that hold or will take an id: the model stops ingesting
\* when MaxRows ids are spoken for.
InFlightAppends == {c \in Callers : op[c] = "append_reading" /\ pc[c] \in {"wait", "crit"}}

MayAppend == seq + Cardinality(InFlightAppends) < MaxRows

\* append_reading, up to the lock: the timestamp defaults to now, and
\* created_at is taken, BEFORE db_lock is asked for.
CallAppend(c, device_id, tds, voltage, timestamp, device_ip) ==
    /\ pc' = [pc EXCEPT ![c] = "wait"]
    /\ op' = [op EXCEPT ![c] = "append_reading"]
    /\ arg' = [arg EXCEPT ![c] =
                 [NoArg EXCEPT !.reading =
                    Some([device_id |-> device_id,
                          device_ip |-> device_ip,
                          tds |-> tds,
                          voltage |-> voltage,
                          timestamp |-> IF IsNone(timestamp) THEN IsoFormat(Now)
                                        ELSE timestamp[1],
                          created_at |-> IsoFormat(Now)])]]
    /\ result' = [result EXCEPT ![c] = NoResult]

\* The handler ends without calling the store.
Respond(c, handler, status) ==
    /\ pc' = [pc EXCEPT ![c] = "done"]
    /\ op' = [op EXCEPT ![c] = handler]
    /\ arg' = [arg EXCEPT ![c] = NoArg]
    /\ result' = [result EXCEPT ![c] = [NoResult EXCEPT !.status = status]]

\* POST /api/tds.
receive_tds(c, payload) ==
    /\ Settled
    /\ c = "http"
    /\ pc[c] = "idle"
    /\ IF ~Truthy(payload.device_id) THEN Respond(c, "receive_tds", "400")
       ELSE IF payload.tds.kind = "null" THEN Respond(c, "receive_tds", "400")
       ELSE IF Float(payload.tds).exc = "ValueError" THEN Respond(c, "receive_tds", "400")
       ELSE IF ~Float(payload.tds).ok THEN Respond(c, "receive_tds", "500")
       ELSE /\ MayAppend
            /\ CallAppend(c, payload.device_id[1], Float(payload.tds).val,
                          payload.voltage, payload.timestamp,
                          IF Truthy(payload.device_ip) THEN payload.device_ip[1]
                          ELSE "client.host")
    /\ UNCHANGED <<quality, csv, clock, tz, rows, seq, db_lock, conns>>

\* One turn of read_serial_loop with a line waiting.
read_serial_loop(c, line) ==
    /\ Settled
    /\ c = "serial"
    /\ pc[c] = "idle"
    /\ LET parsed == parse_serial_line(line) IN
       IF IsNone(parsed) THEN Respond(c, "read_serial_loop", "skipped")
       ELSE /\ MayAppend
            /\ CallAppend(c, parsed[1].device_id, parsed[1].tds, parsed[1].voltage,
                          parsed[1].timestamp, "SERIAL")
    /\ UNCHANGED <<quality, csv, clock, tz, rows, seq, db_lock, conns>>

\* What a script that imports utils.storage passes to append_reading when it
\* leaves out a required value.
DirectAppends ==
    {a \in [device_id : {None, Some("d1")}, tds : {None, Some(5)}] :
        IsNone(a.device_id) \/ IsNone(a.tds)}

\* append_reading called on its own, perhaps with None for device_id or for
\* tds: nulls names the columns that were given None.
append_reading(c, device_id, tds) ==
    /\ Settled
    /\ c = "maint"
    /\ pc[c] = "idle"
    /\ MayAppend
    /\ pc' = [pc EXCEPT ![c] = "wait"]
    /\ op' = [op EXCEPT ![c] = "append_reading"]
    /\ arg' = [arg EXCEPT ![c] =
                 [NoArg EXCEPT
                    !.reading = Some([device_id |-> IF IsNone(device_id) THEN ""
                                                    ELSE device_id[1],
                                      device_ip |-> "",
                                      tds |-> IF IsNone(tds) THEN 0 ELSE tds[1],
                                      voltage |-> None,
                                      timestamp |-> IsoFormat(Now),
                                      created_at |-> IsoFormat(Now)]),
                    !.nulls = (IF IsNone(device_id) THEN {"device_id"} ELSE {})
                              \cup (IF IsNone(tds) THEN {"tds"} ELSE {})]]
    /\ result' = [result EXCEPT ![c] = NoResult]
    /\ UNCHANGED <<quality, csv, clock, tz, rows, seq, db_lock, conns>>

\* "with db_lock:" and sqlite3.connect, in any store operation.
Acquire(c) ==
    /\ Settled
    /\ pc[c] = "wait"
    /\ IsNone(db_lock[ProcOf(c)])
    /\ db_lock' = [db_lock EXCEPT ![ProcOf(c)] = Some(c)]
    /\ conns' = conns \cup {c}
    /\ pc' = [pc EXCEPT ![c] = "crit"]
    /\ UNCHANGED <<quality, csv, clock, tz, rows, seq, op, arg, result>>

\* A store that keeps one row per device and timestamp (INSERT OR REPLACE).
InsertOrReplace(db, last, reading) ==
    {x \in db : x.device_id # reading.device_id \/ x.timestamp # reading.timestamp}
    \cup {[id |-> last + 1,
            device_id |-> reading.device_id,
            device_ip |-> reading.device_ip,
            tds |-> reading.tds,
            voltage |-> reading.voltage,
            timestamp |-> reading.timestamp,
            created_at |-> reading.created_at]}

\* A table whose id is INTEGER PRIMARY KEY without AUTOINCREMENT: the new
\* row gets the id after the largest one present.
InsertAfterLargestPresent(db, last, reading) ==
    db \cup {[id |-> (IF db = {} THEN 0
                      ELSE CHOOSE m \in {x.id : x \in db} : \A x \in db : x.id <= m) + 1,
              device_id |-> reading.device_id,
              device_ip |-> reading.device_ip,
              tds |-> reading.tds,
              voltage |-> reading.voltage,
              timestamp |-> reading.timestamp,
              created_at |-> reading.created_at]}

\* A table without the NOT NULL constraints.
Unconstrained(nulls) == TRUE

\* device_id TEXT NOT NULL, tds REAL NOT NULL: the INSERT goes through only
\* when neither was given None (timestamp and created_at never are).
NotNull(nulls) == nulls = {}

\* The INSERT of append_reading: AUTOINCREMENT gives the row the id after
\* the largest ever assigned.
Insert(db, last, reading) ==
    db \cup {[id |-> last + 1,
              device_id |-> reading.device_id,
              device_ip |-> reading.device_ip,
              tds |-> reading.tds,
              voltage |-> reading.voltage,
              timestamp |-> reading.timestamp,
              created_at |-> reading.created_at]}

\* append_reading inside the lock: INSERT, commit, close; the lock is given
\* back as the with block ends.
AppendCommit(c) ==
    /\ Settled
    /\ pc[c] = "crit"
    /\ op[c] = "append_reading"
    /\ NotNull(arg[c].nulls)
    /\ rows' = Insert(rows, seq, arg[c].reading[1])
    /\ seq' = seq + 1
    /\ conns' = conns \ {c}
    /\ db_lock' = [db_lock EXCEPT ![ProcOf(c)] = None]
    /\ pc' = [pc EXCEPT ![c] = "done"]
    /\ result' = [result EXCEPT ![c] = [NoResult EXCEPT !.status = "ok"]]
    /\ arg' = [arg EXCEPT ![c] = NoArg]
    /\ UNCHANGED <<quality, csv, clock, tz, op>>

\* A store whose INSERT takes effect before the failure is raised.
RaiseAfterInsert(c) ==
    /\ Settled
    /\ pc[c] = "crit"
    /\ rows' = IF op[c] = "append_reading" THEN Insert(rows, seq, arg[c].reading[1])
               ELSE rows
    /\ seq' = IF op[c] = "append_reading" THEN seq + 1 ELSE seq
    /\ db_lock' = [db_lock EXCEPT ![ProcOf(c)] = None]
    /\ pc' = [pc EXCEPT ![c] = "failed"]
    /\ result' = [result EXCEPT ![c] = [NoResult EXCEPT !.status = "raised"]]
    /\ arg' = [arg EXCEPT ![c] = NoArg]
    /\ UNCHANGED <<quality, csv, clock, tz, conns, op>>

\* A critical section between lock.acquire() and lock.release() with no
\* try/finally: a statement that raises leaves the lock taken.
RaiseHoldingLock(c) ==
    /\ Settled
    /\ pc[c] = "crit"
    /\ pc' = [pc EXCEPT ![c] = "failed"]
    /\ result' = [result EXCEPT ![c] = [NoResult EXCEPT !.status = "raised"]]
    /\ arg' = [arg EXCEPT ![c] = NoArg]
    /\ UNCHANGED <<quality, csv, clock, tz, rows, seq, db_lock, conns, op>>

\* A statement raises inside the critical section: the medium fails (the
\* file cannot be opened or written, or another process holds it past the
\* busy timeout), or the INSERT breaks a NOT NULL constraint.  Nothing is
\* committed, the with block gives the lock back, and conn.close() is not
\* reached.
Raise(c) ==
    /\ Settled
    /\ pc[c] = "crit"
    /\ db_lock' = [db_lock EXCEPT ![ProcOf(c)] = None]
    /\ pc' = [pc EXCEPT ![c] = "failed"]
    /\ result' = [result EXCEPT ![c] = [NoResult EXCEPT !.status = "raised"]]
    /\ arg' = [arg EXCEPT ![c] = NoArg]
    /\ UNCHANGED <<quality, csv, clock, tz, rows, seq, conns, op>>

\* The caller is done with the outcome and turns to its next request; the
\* frame of a call that raised is dropped, and its connection with it.
Return(c) ==
    /\ pc[c] \in {"done", "failed"}
    /\ pc' = [pc EXCEPT ![c] = "idle"]
    /\ op' = [op EXCEPT ![c] = ""]
    /\ arg' = [arg EXCEPT ![c] = NoArg]
    /\ result' = [result EXCEPT ![c] = NoResult]
    /\ conns' = conns \ {c}
    /\ UNCHANGED <<quality, csv, clock, tz, rows, seq, db_lock>>

\* ------------------------------------------------------ last_n_readings
\* The arguments a caller passes.
MinuteValues == {None, Some(1)}
LimitValues == {1000}
\* Limits below the number of rows the store may hold.
SmallLimits == {1, 2}
DeviceFilters == {None, Some(""), Some("d1")}

QueryOps == {"last_n_readings", "get_latest_by_device", "clear_old_readings",
             "init_database", "get_stats", "get_device_list", "export_csv"}

\* A query or a prune is called, with no other of them under way.
Call(c, name, a) ==
    /\ Settled
    /\ pc[c] = "idle"
    /\ \A other \in Callers : op[other] \notin QueryOps
    /\ pc' = [pc EXCEPT ![c] = "wait"]
    /\ op' = [op EXCEPT ![c] = name]
    /\ arg' = [arg EXCEPT ![c] = a]
    /\ result' = [result EXCEPT ![c] = NoResult]
    /\ UNCHANGED <<quality, csv, clock, tz, rows, seq, db_lock, conns>>

CallLastN(c, minutes, limit, device_id) ==
    /\ c = "dash"
    /\ Call(c, "last_n_readings",
            [NoArg EXCEPT !.minutes = minutes, !.limit = limit, !.device_id = device_id])

\* The WHERE clause: "timestamp >= ?" when minutes is truthy, with the
\* cutoff taken from the local clock, and "device_id = ?" when device_id is
\* truthy.
Matching(db, now, minutes, device_id) ==
    {r \in db :
        /\ (~IsNone(minutes) /\ minutes[1] # 0) =>
               TextLeq(IsoFormat(now - minutes[1]), r.timestamp)
        /\ Truthy(device_id) => r.device_id = device_id[1]}

\* A query that orders by timestamp ASC before it cuts at the limit.
OldestSets(m, limit) ==
    {t \in SUBSET m :
        /\ Cardinality(t) = IF Cardinality(m) < limit THEN Cardinality(m) ELSE limit
        /\ \A x \in t, y \in m \ t : TextLeq(x.timestamp, y.timestamp)}

\* ORDER BY timestamp DESC LIMIT ?: the sets of rows the query may keep.
\* Among rows of equal timestamp SQL leaves the choice open.
TopSets(m, limit) ==
    {t \in SUBSET m :
        /\ Cardinality(t) = IF Cardinality(m) < limit THEN Cardinality(m) ELSE limit
        /\ \A x \in t, y \in m \ t : TextLeq(y.timestamp, x.timestamp)}

\* The orders of a set of rows, as sequences.
Orders(t) ==
    {s \in [1..Cardinality(t) -> t] : \A i, j \in 1..Cardinality(t) : i # j => s[i] # s[j]}

\* pd.to_datetime of a column.  A column that mixes naive texts with texts
\* carrying "Z" does not parse to one datetime column: depending on the
\* pandas installed, to_datetime raises, or it yields a column of objects
\* on which sort_values raises.
ParsesAsOneColumn(stamps) == \A a, b \in stamps : a.z = b.z

\* df.sort_values('timestamp'): ascending; the default sort is not stable,
\* so rows of equal timestamp come out in any order.
SortedAscending(s) == \A i, j \in 1..Len(s) : i < j => s[i].timestamp.rd <= s[j].timestamp.rd

\* The frames last_n_readings may return for the rows the query kept.
Frames(t) == {s \in Orders(t) : SortedAscending(s)}

\* last_n_readings inside the lock and after it: the query, close, the lock
\* given back, then the conversion and the sort of a frame that is not
\* empty.
LastNFinish(c) ==
    /\ Settled
    /\ pc[c] = "crit"
    /\ op[c] = "last_n_readings"
    /\ \E t \in TopSets(Matching(rows, Now, arg[c].minutes, arg[c].device_id), arg[c].limit) :
         IF ParsesAsOneColumn({r.timestamp : r \in t})
         THEN \E s \in Frames(t) :
                /\ pc' = [pc EXCEPT ![c] = "done"]
                /\ result' = [result EXCEPT ![c] =
                                [NoResult EXCEPT !.status = "ok", !.table = s]]
         ELSE /\ pc' = [pc EXCEPT ![c] = "failed"]
              /\ result' = [result EXCEPT ![c] = [NoResult EXCEPT !.status = "raised"]]
    /\ conns' = conns \ {c}
    /\ db_lock' = [db_lock EXCEPT ![ProcOf(c)] = None]
    /\ UNCHANGED <<quality, csv, clock, tz, rows, seq, op, arg>>

\* ------------------------------------------------- get_latest_by_device
CallLatest(c) ==
    /\ c = "dash"
    /\ Call(c, "get_latest_by_device", NoArg)

DeviceIds(db) == {r.device_id : r \in db}

\* MAX(timestamp) of a device's rows.
LastSeen(db, d) ==
    CHOOSE m \in {r.timestamp : r \in {x \in db : x.device_id = d}} :
        \A r \in db : r.device_id = d => TextLeq(r.timestamp, m)

\* A query that reads MIN where MAX is meant.
EarliestRows(db, d) ==
    {r \in db : r.device_id = d /\ \A x \in db : x.device_id = d => TextLeq(r.timestamp, x.timestamp)}

\* The rows the bare columns of a group may be taken from: SQLite takes
\* them from a row that holds the maximum, whichever when several do.
LatestRows(db, d) ==
    {r \in db : r.device_id = d /\ r.timestamp = LastSeen(db, d)}

\* One row of the result: the bare columns of r and the aggregate.
LatestRow(db, r) ==
    [device_id |-> r.device_id,
     device_ip |-> r.device_ip,
     tds |-> r.tds,
     voltage |-> r.voltage,
     timestamp |-> r.timestamp,
     created_at |-> r.created_at,
     last_seen |-> LastSeen(db, r.device_id)]

\* GROUP BY device_id: the result sets the query may produce.
LatestSets(db) ==
    {{LatestRow(db, pick[d]) : d \in DeviceIds(db)} :
        pick \in {f \in [DeviceIds(db) -> db] : \A d \in DeviceIds(db) : f[d] \in LatestRows(db, d)}}

\* ORDER BY last_seen DESC.
SortedByLastSeenDesc(s) ==
    \A i, j \in 1..Len(s) : i < j => TextLeq(s[j].last_seen, s[i].last_seen)

LatestFinish(c) ==
    /\ Settled
    /\ pc[c] = "crit"
    /\ op[c] = "get_latest_by_device"
    /\ \E t \in LatestSets(rows) :
         \/ \E s \in {o \in Orders(t) : SortedByLastSeenDesc(o)} :
                /\ pc' = [pc EXCEPT ![c] = "done"]
                /\ result' = [result EXCEPT ![c] =
                                [NoResult EXCEPT !.status = "ok", !.table = s]]
         \/ /\ ~ParsesAsOneColumn({r.timestamp : r \in t})
            /\ pc' = [pc EXCEPT ![c] = "failed"]
            /\ result' = [result EXCEPT ![c] = [NoResult EXCEPT !.status = "raised"]]
    /\ conns' = conns \ {c}
    /\ db_lock' = [db_lock EXCEPT ![ProcOf(c)] = None]
    /\ UNCHANGED <<quality, csv, clock, tz, rows, seq, op, arg>>

\* --------------------------------------------------- clear_old_readings
PruneDays == {1}

\* clear_old_readings, up to the lock: the cutoff is taken from the local
\* clock before db_lock is asked for.
CallPrune(c, days) ==
    /\ c = "maint"
    /\ Call(c, "clear_old_readings",
            [NoArg EXCEPT !.days = days,
                          !.cutoff = Some(IsoFormat(Now - days * DayMinutes))])

\* A DELETE whose comparison also takes the rows at the cutoff.
DeletedUpTo(db, cutoff) == {r \in db : TextLeq(r.timestamp, cutoff)}

\* SELECT COUNT(*) FROM readings, the total_readings of get_stats.
total_readings(db) == Cardinality(db)

\* DELETE FROM readings WHERE timestamp < ?
Deleted(db, cutoff) == {r \in db : TextLess(r.timestamp, cutoff)}

PruneCommit(c) ==
    /\ Settled
    /\ pc[c] = "crit"
    /\ op[c] = "clear_old_readings"
    /\ rows' = rows \ Deleted(rows, arg[c].cutoff[1])
    /\ result' = [result EXCEPT ![c] =
                    [NoResult EXCEPT !.status = "ok",
                                     !.n = Cardinality(Deleted(rows, arg[c].cutoff[1]))]]
    /\ conns' = conns \ {c}
    /\ db_lock' = [db_lock EXCEPT ![ProcOf(c)] = None]
    /\ pc' = [pc EXCEPT ![c] = "done"]
    /\ UNCHANGED <<quality, csv, clock, tz, seq, op, arg>>

\* -------------------------------------------------------- init_database
\* A process imports utils.storage: init_database runs once more.
CallInit(c) ==
    /\ c = "maint"
    /\ Call(c, "init_database", NoArg)

\* An init_database that drops the table and creates it anew.
InitFinishDropTable(c) ==
    /\ Settled
    /\ pc[c] = "crit"
    /\ op[c] = "init_database"
    /\ rows' = {}
    /\ conns' = conns \ {c}
    /\ db_lock' = [db_lock EXCEPT ![ProcOf(c)] = None]
    /\ pc' = [pc EXCEPT ![c] = "done"]
    /\ result' = [result EXCEPT ![c] = [NoResult EXCEPT !.status = "ok"]]
    /\ UNCHANGED <<quality, csv, clock, tz, seq, op, arg>>

\* CREATE TABLE IF NOT EXISTS, CREATE INDEX IF NOT EXISTS, commit, close:
\* the table is there already and stays as it is.
InitFinish(c) ==
    /\ Settled
    /\ pc[c] = "crit"
    /\ op[c] = "init_database"
    /\ conns' = conns \ {c}
    /\ db_lock' = [db_lock EXCEPT ![ProcOf(c)] = None]
    /\ pc' = [pc EXCEPT ![c] = "done"]
    /\ result' = [result EXCEPT ![c] = [NoResult EXCEPT !.status = "ok"]]
    /\ UNCHANGED <<quality, csv, clock, tz, rows, seq, op, arg>>

\* ------------------------------------------------------------ get_stats
CallStats(c) ==
    /\ c = "dash"
    /\ Call(c, "get_stats", NoArg)

\* SELECT COUNT(DISTINCT device_id) FROM readings
total_devices(db) == Cardinality(DeviceIds(db))

\* A query that reads MAX where MIN is meant.
LargestTimestamp(db) ==
    IF db = {} THEN None
    ELSE Some(CHOOSE m \in {r.timestamp : r \in db} : \A r \in db : TextLeq(r.timestamp, m))

\* SELECT MIN(timestamp) FROM readings: NULL on an empty table.
earliest(db) ==
    IF db = {} THEN None
    ELSE Some(CHOOSE m \in {r.timestamp : r \in db} : \A r \in db : TextLeq(m, r.timestamp))

\* SELECT MAX(timestamp) FROM readings: NULL on an empty table.
latest(db) ==
    IF db = {} THEN None
    ELSE Some(CHOOSE m \in {r.timestamp : r \in db} : \A r \in db : TextLeq(r.timestamp, m))

\* The first SELECT of get_stats.  Each SELECT is a statement of its own on
\* a connection in autocommit: it reads the table as it is when it runs.
StatsCount(c) ==
    /\ Settled
    /\ pc[c] = "crit"
    /\ op[c] = "get_stats"
    /\ arg[c].step = 0
    /\ result' = [result EXCEPT ![c].stats.total_readings = total_readings(rows)]
    /\ arg' = [arg EXCEPT ![c].step = 1]
    /\ UNCHANGED <<quality, csv, clock, tz, rows, seq, db_lock, conns, pc, op>>

\* The second SELECT.
StatsDevices(c) ==
    /\ Settled
    /\ pc[c] = "crit"
    /\ op[c] = "get_stats"
    /\ arg[c].step = 1
    /\ result' = [result EXCEPT ![c].stats.total_devices = total_devices(rows)]
    /\ arg' = [arg EXCEPT ![c].step = 2]
    /\ UNCHANGED <<quality, csv, clock, tz, rows, seq, db_lock, conns, pc, op>>

\* The third SELECT, close, the lock given back, and the dictionary.
StatsFinish(c) ==
    /\ Settled
    /\ pc[c] = "crit"
    /\ op[c] = "get_stats"
    /\ arg[c].step = 2
    /\ result' = [result EXCEPT ![c].stats.earliest = earliest(rows),
                                ![c].stats.latest = latest(rows),
                                ![c].status = "ok"]
    /\ arg' = [arg EXCEPT ![c] = NoArg]
    /\ conns' = conns \ {c}
    /\ db_lock' = [db_lock EXCEPT ![ProcOf(c)] = None]
    /\ pc' = [pc EXCEPT ![c] = "done"]
    /\ UNCHANGED <<quality, csv, clock, tz, rows, seq, op>>

\* ------------------------------------------------------ get_device_list
CallDeviceList(c) ==
    /\ c = "dash"
    /\ Call(c, "get_device_list", NoArg)

\* A query without GROUP BY device_id: one pair per reading.
PairPerReading(db) ==
    {[device_id |-> r.device_id, last_seen |-> r.timestamp] : r \in db}

\* SELECT DISTINCT device_id, MAX(timestamp) as last_seen ... GROUP BY
\* device_id: the pairs fetched.
DevicePairs(db) ==
    {[device_id |-> d, last_seen |-> LastSeen(db, d)] : d \in DeviceIds(db)}

\* The query with its ORDER BY last_seen DESC, fetchall, close.
DeviceListFinish(c) ==
    /\ Settled
    /\ pc[c] = "crit"
    /\ op[c] = "get_device_list"
    /\ \E s \in {o \in Orders(DevicePairs(rows)) : SortedByLastSeenDesc(o)} :
         result' = [result EXCEPT ![c] = [NoResult EXCEPT !.status = "ok", !.table = s]]
    /\ conns' = conns \ {c}
    /\ db_lock' = [db_lock EXCEPT ![ProcOf(c)] = None]
    /\ pc' = [pc EXCEPT ![c] = "done"]
    /\ UNCHANGED <<quality, csv, clock, tz, rows, seq, op, arg>>

\* ----------------------------------------------------------- export_csv
\* The exports asked for: everything, one device, and the last day with
\* an empty device filter.
ExportCalls == {[device_id |-> None, days |-> None],
                [device_id |-> Some("d1"), days |-> None],
                [device_id |-> Some(""), days |-> Some(1)]}
ExportLimit == 100000

\* export_csv up to the lock of the last_n_readings it calls.
CallExport(c, device_id, days) ==
    /\ c = "dash"
    /\ Call(c, "export_csv",
            [NoArg EXCEPT !.minutes = IF ~IsNone(days) /\ days[1] # 0
                                      THEN Some(days[1] * DayMinutes) ELSE None,
                          !.limit = ExportLimit,
                          !.device_id = device_id])

\* An export that writes the file whatever the frame holds.
to_csv_always(file, df) == Some(df)

\* "if not df.empty: df.to_csv(path)": the file after export_csv.
to_csv(file, df) == IF df # <<>> THEN Some(df) ELSE file

\* The rest of export_csv: the range query, then the file is written and
\* the path returned if the frame has rows, and None returned if not.
ExportFinish(c) ==
    /\ Settled
    /\ pc[c] = "crit"
    /\ op[c] = "export_csv"
    /\ \E t \in TopSets(Matching(rows, Now, arg[c].minutes, arg[c].device_id), arg[c].limit) :
         IF ParsesAsOneColumn({r.timestamp : r \in t})
         THEN \E s \in Frames(t) :
                /\ pc' = [pc EXCEPT ![c] = "done"]
                /\ csv' = to_csv(csv, s)
                /\ result' = [result EXCEPT ![c] =
                                [NoResult EXCEPT
                                   !.status = "ok",
                                   !.table = s,
                                   !.path = IF s # <<>> THEN Some("data/tds_export.csv")
                                            ELSE None]]
         ELSE /\ pc' = [pc EXCEPT ![c] = "failed"]
              /\ csv' = csv
              /\ result' = [result EXCEPT ![c] = [NoResult EXCEPT !.status = "raised"]]
    /\ conns' = conns \ {c}
    /\ db_lock' = [db_lock EXCEPT ![ProcOf(c)] = None]
    /\ UNCHANGED <<quality, clock, tz, rows, seq, op, arg>>

\* ------------------------------------------------------- specifications
\* Ingestion, the dashboard's range and latest queries, and pruning.
Next ==
    \/ Tick
    \/ \E payload \in HttpPayloads : receive_tds("http", payload)
    \/ \E line \in SerialLines(tz) : read_serial_loop("serial", line)
    \/ \E c \in Callers : Acquire(c)
    \/ \E c \in Callers : AppendCommit(c)
    \/ \E c \in Callers : \E m \in MinuteValues, l \in LimitValues, d \in DeviceFilters :
           CallLastN(c, m, l, d)
    \/ \E c \in Callers : LastNFinish(c)
    \/ \E c \in Callers : CallLatest(c)
    \/ \E c \in Callers : LatestFinish(c)
    \/ \E c \in Callers : \E days \in PruneDays : CallPrune(c, days)
    \/ \E c \in Callers : PruneCommit(c)
    \/ \E c \in Callers : Raise(c)
    \/ \E c \in Callers : Return(c)

Spec == Init /\ [][Next]_vars

\* Ingestion, direct appends, pruning, and the dashboard's sidebar: the
\* device list and the statistics; a process starting up.
NextSidebar ==
    \/ Tick
    \/ \E payload \in HttpPayloads : receive_tds("http", payload)
    \/ \E line \in SerialLines(tz) : read_serial_loop("serial", line)
    \/ \E c \in Callers : Acquire(c)
    \/ \E c \in Callers : AppendCommit(c)
    \/ \E c \in Callers : Raise(c)
    \/ \E c \in Callers : Return(c)
    \/ \E a \in DirectAppends : append_reading("maint", a.device_id, a.tds)
    \/ \E c \in Callers : CallInit(c)
    \/ \E c \in Callers : InitFinish(c)
    \/ \E c \in Callers : CallStats(c)
    \/ \E c \in Callers : StatsCount(c)
    \/ \E c \in Callers : StatsDevices(c)
    \/ \E c \in Callers : StatsFinish(c)
    \/ \E c \in Callers : CallDeviceList(c)
    \/ \E c \in Callers : DeviceListFinish(c)
    \/ \E c \in Callers : \E days \in PruneDays : CallPrune(c, days)
    \/ \E c \in Callers : PruneCommit(c)

SpecSidebar == Init /\ [][NextSidebar]_vars

\* Ingestion and the export button.
NextExport ==
    \/ Tick
    \/ \E payload \in HttpPayloads : receive_tds("http", payload)
    \/ \E line \in SerialLines(tz) : read_serial_loop("serial", line)
    \/ \E c \in Callers : Acquire(c)
    \/ \E c \in Callers : AppendCommit(c)
    \/ \E c \in Callers : Raise(c)
    \/ \E c \in Callers : Return(c)
    \/ \E c \in Callers : \E e \in ExportCalls : CallExport(c, e.device_id, e.days)
    \/ \E c \in Callers : ExportFinish(c)

SpecExport == Init /\ [][NextExport]_vars

\* Ingestion and range queries whose limit the store can exceed.
NextLimit ==
    \/ Tick
    \/ \E payload \in HttpPayloads : receive_tds("http", payload)
    \/ \E line \in SerialLines(tz) : read_serial_loop("serial", line)
    \/ \E c \in Callers : Acquire(c)
    \/ \E c \in Callers : AppendCommit(c)
    \/ \E c \in Callers : Raise(c)
    \/ \E c \in Callers : Return(c)
    \/ \E c \in Callers : \E m \in MinuteValues, l \in SmallLimits, d \in DeviceFilters :
           CallLastN(c, m, l, d)
    \/ \E c \in Callers : LastNFinish(c)

SpecLimit == Init /\ [][NextLimit]_vars

\* ------------------------------------------- two sessions of the dashboard
Sessions == {"dash", "dash2"}

\* A session calls a store operation, whatever the other session is doing.
Invoke(c, name, a) ==
    /\ Settled
    /\ pc[c] = "idle"
    /\ pc' = [pc EXCEPT ![c] = "wait"]
    /\ op' = [op EXCEPT ![c] = name]
    /\ arg' = [arg EXCEPT ![c] = a]
    /\ result' = [result EXCEPT ![c] = NoResult]
    /\ UNCHANGED <<quality, csv, clock, tz, rows, seq, db_lock, conns>>

\* The sidebar of a session reads the device list.
SessionDeviceList(c) ==
    /\ c \in Sessions
    /\ Invoke(c, "get_device_list", NoArg)

\* The export button of a session: export_csv takes no lock itself and
\* calls last_n_readings, which takes it.
SessionExport(c, device_id) ==
    /\ c \in Sessions
    /\ Invoke(c, "export_csv",
              [NoArg EXCEPT !.limit = ExportLimit, !.device_id = device_id])

\* The HTTP server appending while two sessions of the dashboard read the
\* device list and export.
NextSessions ==
    \/ \E payload \in HttpPayloads : receive_tds("http", payload)
    \/ \E c \in Callers : Acquire(c)
    \/ \E c \in Callers : AppendCommit(c)
    \/ \E c \in Callers : Raise(c)
    \/ \E c \in Callers : Return(c)
    \/ \E c \in Callers : SessionDeviceList(c)
    \/ \E c \in Callers : DeviceListFinish(c)
    \/ \E c \in Callers : \E d \in {None, Some("d1")} : SessionExport(c, d)
    \/ \E c \in Callers : ExportFinish(c)

\* Fair scheduling.  A caller waiting at "with db_lock" gets the lock if
\* the lock is free again and again (threading.Lock hands it to some
\* waiter, in no promised order); a caller inside its critical section
\* runs on to its end, by returning or by raising; a caller that has its
\* outcome goes on.  The steps of the first two kinds are strongly fair
\* because the model lets no caller step while the outcome of another
\* waits to be taken up (Settled).  The serial reader and the maintenance
\* job take no step here.
Fairness ==
    \A c \in Sessions \cup {"http"} :
        /\ SF_vars(Acquire(c))
        /\ SF_vars(AppendCommit(c) \/ DeviceListFinish(c) \/ ExportFinish(c) \/ Raise(c))
        /\ WF_vars(Return(c))

SpecSessions == Init /\ [][NextSessions]_vars /\ Fairness

\* ---------------------------------------------- get_water_quality_status
\* The thresholds of config.yaml: the defaults, a lower pair, and a pair in
\* the wrong order.
ThresholdPairs == {[good |-> 300000, moderate |-> 600000],
                   [good |-> 150000, moderate |-> 300000],
                   [good |-> 600000, moderate |-> 300000]}

\* The tds values classified: at, just below and just above the
\* thresholds, and far from them.
TdsValues == {-1000, 0, 149990, 149996, 150000, 150004, 299900, 299990, 299996,
              300000, 300004, 300010, 599900, 599996, 600000, 600004, 900000}

\* A classification whose comparisons include the threshold.
get_water_quality_status_inclusive(tds, thresholds) ==
    IF tds <= thresholds.good THEN "Good"
    ELSE IF tds <= thresholds.moderate THEN "Moderate"
    ELSE "Poor"

\* get_water_quality_status: the status name it returns.
get_water_quality_status(tds, thresholds) ==
    IF tds < thresholds.good THEN "Good"
    ELSE IF tds < thresholds.moderate THEN "Moderate"
    ELSE "Poor"

\* display_df['tds'].round(2): to the nearest hundredth, a half to the even
\* neighbour.
Round2(x) ==
    LET q == x \div 10
        r == x % 10
    IN IF r < 5 THEN q * 10
       ELSE IF r > 5 THEN (q + 1) * 10
       ELSE IF q % 2 = 0 THEN q * 10 ELSE (q + 1) * 10

\* The dashboard is given its thresholds and a tds value to show.
InitQuality ==
    /\ clock = 0
    /\ tz \in TzOffsets
    /\ rows = {}
    /\ seq = 0
    /\ db_lock = [p \in Procs |-> None]
    /\ conns = {}
    /\ pc = [c \in Callers |-> "idle"]
    /\ op = [c \in Callers |-> ""]
    /\ arg = [c \in Callers |-> NoArg]
    /\ result = [c \in Callers |-> NoResult]
    /\ csv = None
    /\ quality \in [tds : TdsValues, thresholds : ThresholdPairs, card : {""}, row : {""}]

\* The status on a device card, from the tds of the device's latest row.
StatusCard ==
    /\ quality.card = ""
    /\ quality' = [quality EXCEPT
                      !.card = get_water_quality_status(quality.tds, quality.thresholds)]
    /\ UNCHANGED <<csv, clock, tz, rows, seq, db_lock, conns, pc, op, arg, result>>

\* The status column of the readings table, from the rounded tds.
StatusColumn ==
    /\ quality.row = ""
    /\ quality' = [quality EXCEPT
                      !.row = get_water_quality_status(Round2(quality.tds), quality.thresholds)]
    /\ UNCHANGED <<csv, clock, tz, rows, seq, db_lock, conns, pc, op, arg, result>>

NextQuality ==
    \/ StatusCard
    \/ StatusColumn

SpecQuality == InitQuality /\ [][NextQuality]_vars

\* Every operation of the store.
NextAll ==
    \/ Tick
    \/ \E payload \in HttpPayloads : receive_tds("http", payload)
    \/ \E line \in SerialLines(tz) : read_serial_loop("serial", line)
    \/ \E a \in DirectAppends : append_reading("maint", a.device_id, a.tds)
    \/ \E c \in Callers : Acquire(c)
    \/ \E c \in Callers : AppendCommit(c)
    \/ \E c \in Callers : Raise(c)
    \/ \E c \in Callers : Return(c)
    \/ \E c \in Callers : CallInit(c)
    \/ \E c \in Callers : InitFinish(c)
    \/ \E c \in Callers : \E m \in MinuteValues, l \in LimitValues, d \in DeviceFilters :
           CallLastN(c, m, l, d)
    \/ \E c \in Callers : LastNFinish(c)
    \/ \E c \in Callers : CallLatest(c)
    \/ \E c \in Callers : LatestFinish(c)
    \/ \E c \in Callers : CallStats(c)
    \/ \E c \in Callers : StatsCount(c)
    \/ \E c \in Callers : StatsDevices(c)
    \/ \E c \in Callers : StatsFinish(c)
    \/ \E c \in Callers : CallDeviceList(c)
    \/ \E c \in Callers : DeviceListFinish(c)
    \/ \E c \in Callers : \E e \in ExportCalls : CallExport(c, e.device_id, e.days)
    \/ \E c \in Callers : ExportFinish(c)
    \/ \E c \in Callers : \E days \in PruneDays : CallPrune(c, days)
    \/ \E c \in Callers : PruneCommit(c)

SpecAll == Init /\ [][NextAll]_vars

\* ================================================================ claims
\* The step in which caller c's operation `name` hands back its result.
Finishes(c, name) == op[c] = name /\ pc[c] = "crit" /\ pc'[c] = "done"

\* What append_reading was given to store, read off a stored row.
ValuesOf(r) ==
    [device_id |-> r.device_id,
     device_ip |-> r.device_ip,
     tds |-> r.tds,
     voltage |-> r.voltage,
     timestamp |-> r.timestamp,
     created_at |-> r.created_at]

\* C1: every append_reading call that returns has added exactly one row of
\* its own to the store, with an id no other row has, whatever the other
\* callers were doing meanwhile: the rows already there stay, no two rows
\* share an id, and the table grows only by a returning append, one row at a
\* time.
C1_AppendsNeitherLostNorMerged ==
    [][/\ \A a, b \in rows' : a.id = b.id => a = b
       /\ \A c \in Callers :
            Finishes(c, "append_reading") =>
                \E r \in rows' \ rows :
                    /\ rows' = rows \cup {r}
                    /\ \A x \in rows : x.id # r.id
                    /\ ValuesOf(r) = arg[c].reading[1]
       /\ rows' \ rows # {} => \E c \in Callers : Finishes(c, "append_reading")
      ]_vars

\* Two appends from different processes overlapped and both are stored: the
\* row that was inserted second had taken its created_at first.
C1_Witness ==
    \E a, b \in rows :
        /\ a.id < b.id
        /\ a.device_ip # b.device_ip
        /\ TextLess(b.created_at, a.created_at)

\* C2: at most one store operation is inside its critical section with a
\* connection open, counting the callers of all processes together.
C2_MutualExclusion ==
    Cardinality({c \in Callers : pc[c] = "crit" /\ c \in conns}) <= 1

\* C3: the rows last_n_readings returns are in ascending timestamp order,
\* and rows of equal timestamp are in ascending id order.
C3_AscendingTiesById ==
    \A c \in Callers :
        (op[c] = "last_n_readings" /\ pc[c] = "done") =>
            \A i, j \in DOMAIN result[c].table :
                i < j =>
                    /\ result[c].table[i].timestamp.rd <= result[c].table[j].timestamp.rd
                    /\ result[c].table[i].timestamp = result[c].table[j].timestamp =>
                           result[c].table[i].id < result[c].table[j].id

C5_TieGoesToHighestId ==
    \A c \in Callers :
        (op[c] = "get_latest_by_device" /\ pc[c] = "done") =>
            \A i \in DOMAIN result[c].table :
                \A r \in LatestRows(rows, result[c].table[i].device_id) :
                    (\A x \in LatestRows(rows, r.device_id) : x.id <= r.id) =>
                        /\ result[c].table[i].tds = r.tds
                        /\ result[c].table[i].device_ip = r.device_ip
                        /\ result[c].table[i].voltage = r.voltage
                        /\ result[c].table[i].created_at = r.created_at

\* C6: every stored row has a device_id that is not empty and a tds that is
\* a number, on both ingestion paths.
C6_OnlyValidInputPersisted ==
    \A r \in rows : r.device_id # "" /\ r.tds \in Int

\* C7: clear_old_readings(days) removes exactly the rows whose timestamp
\* comes strictly before the cutoff, which is now - days for a now read
\* during the call; every other row stays as it was; the value returned is
\* the number of rows removed, and the total_readings of get_stats goes
\* down by that number.
C7_PruneRemovesExactlyTheOld ==
    [][\A c \in Callers :
         Finishes(c, "clear_old_readings") =>
            LET cutoff == arg[c].cutoff[1] IN
            /\ \E t \in 0..clock :
                 cutoff = IsoFormat(t + tz - arg[c].days * DayMinutes)
            /\ rows' \subseteq rows
            /\ \A r \in rows : r \in rows' <=> ~TextLess(r.timestamp, cutoff)
            /\ result'[c].n = Cardinality(rows \ rows')
            /\ total_readings(rows') = total_readings(rows) - result'[c].n
      ]_vars

\* A prune that removed an old reading and kept one that sits exactly at
\* the cutoff or later.
C7_Witness ==
    /\ op["maint"] = "clear_old_readings"
    /\ pc["maint"] = "done"
    /\ result["maint"].n = 1
    /\ Cardinality(rows) = 1

\* C8: created_at never goes down as the id goes up.
C8_CreatedAtMonotonic ==
    \A a, b \in rows : a.id < b.id => TextLeq(a.created_at, b.created_at)

\* The instant, in UTC minutes, that a timestamp denotes: a text with "Z"
\* is a UTC time, a naive text is a local time of the host.
Instant(ts) == IF ts.z THEN ts.rd ELSE ts.rd - tz

\* C9: last_n_readings(minutes=m) returns exactly the stored readings (of
\* the device asked for, if one is) whose timestamp lies in the last m
\* minutes, whichever transport supplied the timestamp, when no more than
\* limit readings match.
C9_WindowHoldsTheLastMinutes ==
    \A c \in Callers :
        (/\ op[c] = "last_n_readings"
         /\ pc[c] = "done"
         /\ ~IsNone(arg[c].minutes)
         /\ arg[c].minutes[1] >= 1) =>
            LET wanted == {r \in rows :
                             /\ Instant(r.timestamp) >= clock - arg[c].minutes[1]
                             /\ Truthy(arg[c].device_id) => r.device_id = arg[c].device_id[1]}
            IN Cardinality(wanted) <= arg[c].limit =>
                   {result[c].table[i] : i \in DOMAIN result[c].table} = wanted

\* C10: last_n_readings(device_id=d), for a device d that readings were
\* appended for, returns only rows whose device_id is d, whatever the time
\* window.
C10_DeviceFilterIsolation ==
    \A c \in Callers :
        (/\ op[c] = "last_n_readings"
         /\ pc[c] = "done"
         /\ ~IsNone(arg[c].device_id)
         /\ arg[c].device_id[1] \in DeviceIds(rows)) =>
            \A i \in DOMAIN result[c].table :
                result[c].table[i].device_id = arg[c].device_id[1]

\* The (device_id, tds, timestamp) record of a row.
Appended(r) == [device_id |-> r.device_id, tds |-> r.tds, timestamp |-> r.timestamp]

\* C11: with k <= limit readings appended and none pruned, an unfiltered
\* last_n_readings() whose SELECT has run returns, and returns exactly the
\* k appended (device_id, tds, timestamp) records.
C11_AppendReadRoundTrip ==
    \A c \in Callers :
        (/\ op[c] = "last_n_readings"
         /\ pc[c] \in {"done", "failed"}
         /\ c \notin conns
         /\ IsNone(arg[c].minutes)
         /\ ~Truthy(arg[c].device_id)
         /\ seq = Cardinality(rows)
         /\ Cardinality(rows) <= arg[c].limit) =>
            /\ pc[c] = "done"
            /\ Len(result[c].table) = Cardinality(rows)
            /\ {Appended(result[c].table[i]) : i \in DOMAIN result[c].table}
                   = {Appended(r) : r \in rows}

\* The operations that only read the table, and init_database.
ReadOps == {"init_database", "last_n_readings", "get_latest_by_device",
            "get_device_list", "get_stats", "export_csv"}

\* Caller c takes a step of its operation.
Steps(c) == pc'[c] # pc[c] \/ arg'[c] # arg[c] \/ result'[c] # result[c]

\* C12: a stored reading keeps its id and its values for as long as it is
\* there; a reading leaves the table only in the DELETE of
\* clear_old_readings; no step of init_database, of a query or of
\* export_csv changes the table, and an append only adds to it.
C12_AppendOnly ==
    [][/\ \A a \in rows, b \in rows' : a.id = b.id => a = b
       /\ rows \ rows' # {} => \E c \in Callers : Finishes(c, "clear_old_readings")
       /\ \A c \in Callers : (op[c] \in ReadOps /\ Steps(c)) => rows' = rows
       /\ \A c \in Callers : (op[c] = "append_reading" /\ Steps(c)) => rows \subseteq rows'
      ]_vars

\* An export has read a table from which a prune has removed a reading and
\* in which another reading is still stored.
C12_Witness ==
    /\ op["dash"] = "export_csv"
    /\ pc["dash"] = "done"
    /\ rows # {}
    /\ seq > Cardinality(rows)
    /\ csv # None

\* C13: export_csv whose range query finds no row returns None without
\* raising and leaves the file system as it was; when the query returns
\* rows the file holds exactly those rows and the path is returned; a file
\* without rows never exists.
C13_ExportWritesOnlyRows ==
    [][/\ csv' # Some(<<>>)
       /\ \A c \in Callers :
            LET m == Matching(rows, Now, arg[c].minutes, arg[c].device_id) IN
            /\ Finishes(c, "export_csv") =>
                 LET s == result'[c].table IN
                 /\ {s[i] : i \in DOMAIN s} \in TopSets(m, arg[c].limit)
                 /\ Len(s) = Cardinality(m)
                 /\ s = <<>> => (csv' = csv /\ result'[c].path = None)
                 /\ s # <<>> => (csv' = Some(s) /\ result'[c].path # None)
            /\ (op[c] = "export_csv" /\ pc[c] = "crit" /\ m = {}) =>
                 pc'[c] \in {"crit", "done"} \/ c \in conns'
      ]_vars

\* An export found nothing to write in a store that holds readings, and
\* no file was made.
C13_Witness ==
    /\ op["dash"] = "export_csv"
    /\ pc["dash"] = "done"
    /\ result["dash"].path = None
    /\ rows # {}
    /\ csv = None

\* C14: an append_reading in which the medium fails ends in a raised
\* failure, leaves the table and the id counter as they were, and is over:
\* the call is not taken up again.
C14_FailedAppendCommitsNothing ==
    [][\A c \in Callers :
         op[c] = "append_reading" =>
            /\ (pc[c] = "crit" /\ pc'[c] # "crit" /\ rows' = rows) =>
                   /\ pc'[c] = "failed"
                   /\ result'[c].status = "raised"
            /\ (pc[c] = "crit" /\ pc'[c] = "failed") =>
                   /\ rows' = rows
                   /\ seq' = seq
                   /\ IsNone(arg'[c].reading)
            /\ pc[c] = "failed" =>
                   /\ pc'[c] \in {"failed", "idle"}
                   /\ rows' = rows
      ]_vars

\* The HTTP server's append has failed on a store that holds a reading.
C14_Witness ==
    /\ op["http"] = "append_reading"
    /\ pc["http"] = "failed"
    /\ result["http"].status = "raised"
    /\ rows # {}

\* C15: the id counter never goes down, every new row gets an id above
\* every id assigned so far, whether the rows that had them are still
\* stored or were pruned, and no stored id exceeds the counter.
C15_IdsNeverReused ==
    [][/\ seq' >= seq
       /\ \A r \in rows' \ rows : r.id > seq /\ r.id = seq'
       /\ \A r \in rows' : r.id <= seq'
      ]_vars

\* An append has just stored its row after the reading with id 1 was
\* pruned: the new row is alone and has the id 2 or above.
C15_Witness ==
    /\ \E c \in Callers : op[c] = "append_reading" /\ pc[c] = "done"
    /\ seq > 1
    /\ rows # {}
    /\ \A r \in rows : r.id = seq

\* A serial line that does not parse: fewer than two fields, or a tds or a
\* voltage field that is not a number.
Malformed(line) ==
    \/ Len(line.parts) < 2
    \/ line.parts[2] \notin NumericTexts
    \/ (Len(line.parts) > 2 /\ line.parts[3] # "" /\ line.parts[3] \notin NumericTexts)

\* C16: every line the serial loop reads leads to no append_reading call
\* when it is malformed (the line is skipped and the table stays as it is)
\* and to exactly one call, with the values of the line, when it is not;
\* whatever the outcome of handling a line, a failed append included, the
\* loop is back at reading lines; one line adds at most one row.
C16_SerialLoopGoesOn ==
    [][LET c == "serial" IN
       /\ (pc[c] = "idle" /\ pc'[c] # "idle") =>
            \E line \in SerialLines(tz) :
                \/ /\ Malformed(line)
                   /\ op'[c] = "read_serial_loop"
                   /\ pc'[c] = "done"
                   /\ result'[c].status = "skipped"
                   /\ IsNone(arg'[c].reading)
                   /\ rows' = rows
                \/ /\ ~Malformed(line)
                   /\ op'[c] = "append_reading"
                   /\ pc'[c] = "wait"
                   /\ arg'[c].reading[1].device_id = line.parts[1]
                   /\ arg'[c].reading[1].tds = ParseFloatText(line.parts[2])
                   /\ IsNone(arg'[c].reading[1].voltage) <=>
                          (Len(line.parts) < 3 \/ line.parts[3] = "")
                   /\ IsNone(line.ts) \/ arg'[c].reading[1].timestamp = line.ts[1]
                   /\ arg'[c].reading[1].device_ip = "SERIAL"
       /\ pc[c] \in {"done", "failed"} => pc'[c] \in {pc[c], "idle"}
       /\ (pc[c] # "crit" \/ pc'[c] # "done") => {r \in rows' \ rows : r.device_ip = "SERIAL"} = {}
       /\ Cardinality({r \in rows' \ rows : r.device_ip = "SERIAL"}) <= 1
      ]_vars

\* The loop has stored the reading of one line and has then skipped a
\* malformed one.
C16_Witness ==
    /\ op["serial"] = "read_serial_loop"
    /\ pc["serial"] = "done"
    /\ result["serial"].status = "skipped"
    /\ \E r \in rows : r.device_ip = "SERIAL"

\* m is the smallest of the stored timestamps, as an optional value.
IsMinimumOf(m, db) ==
    IF db = {} THEN IsNone(m)
    ELSE /\ ~IsNone(m)
         /\ m[1] \in {r.timestamp : r \in db}
         /\ \A r \in db : TextLeq(m[1], r.timestamp)

\* m is the largest of the stored timestamps, as an optional value.
IsMaximumOf(m, db) ==
    IF db = {} THEN IsNone(m)
    ELSE /\ ~IsNone(m)
         /\ m[1] \in {r.timestamp : r \in db}
         /\ \A r \in db : TextLeq(r.timestamp, m[1])

\* C17: each value get_stats returns is that of the table its SELECT reads:
\* total_readings the number of rows, total_devices the number of distinct
\* device_id values, earliest and latest the smallest and the largest
\* timestamp; on an empty table the counts are 0 and earliest and latest
\* are None, in a call that returns normally.
C17_StatsDescribeTheStore ==
    [][\A c \in Callers :
         (op[c] = "get_stats" /\ pc[c] = "crit") =>
            /\ (arg[c].step = 0 /\ arg'[c].step = 1) =>
                   result'[c].stats.total_readings = Cardinality(rows)
            /\ (arg[c].step = 1 /\ arg'[c].step = 2) =>
                   /\ result'[c].stats.total_devices = Cardinality({r.device_id : r \in rows})
                   /\ result'[c].stats.total_readings = result[c].stats.total_readings
            /\ Finishes(c, "get_stats") =>
                   /\ arg[c].step = 2
                   /\ IsMinimumOf(result'[c].stats.earliest, rows)
                   /\ IsMaximumOf(result'[c].stats.latest, rows)
                   /\ result'[c].stats.total_readings = result[c].stats.total_readings
                   /\ result'[c].stats.total_devices = result[c].stats.total_devices
                   /\ result'[c].status = "ok"
      ]_vars

\* get_stats has returned the statistics of a store that holds two
\* readings of two devices with different timestamps.
C17_Witness ==
    /\ op["dash"] = "get_stats"
    /\ pc["dash"] = "done"
    /\ Cardinality(rows) = 2
    /\ result["dash"].stats.total_readings = 2
    /\ result["dash"].stats.total_devices = 2
    /\ result["dash"].stats.earliest # result["dash"].stats.latest

\* C18: get_device_list returns one (device_id, last_seen) pair per device
\* in the store, last_seen being the largest timestamp of the device's
\* readings, in descending order of last_seen; the pairs are the device_id
\* and last_seen of the rows get_latest_by_device may return on the same
\* table.
C18_DeviceListPairs ==
    \A c \in Callers :
        (op[c] = "get_device_list" /\ pc[c] = "done") =>
            LET s == result[c].table IN
            /\ Len(s) = Cardinality({r.device_id : r \in rows})
            /\ {s[i].device_id : i \in DOMAIN s} = {r.device_id : r \in rows}
            /\ \A i \in DOMAIN s :
                 /\ \E r \in rows : r.device_id = s[i].device_id /\ r.timestamp = s[i].last_seen
                 /\ \A r \in rows :
                        r.device_id = s[i].device_id => TextLeq(r.timestamp, s[i].last_seen)
            /\ \A i, j \in DOMAIN s : i < j => TextLeq(s[j].last_seen, s[i].last_seen)
            /\ \A t \in LatestSets(rows) :
                 {[device_id |-> x.device_id, last_seen |-> x.last_seen] : x \in t}
                     = {s[i] : i \in DOMAIN s}

\* The list of a store in which a device has an older and a newer reading.
C18_Witness ==
    /\ op["dash"] = "get_device_list"
    /\ pc["dash"] = "done"
    /\ Len(result["dash"].table) = 1
    /\ \E a, b \in rows : a.device_id = b.device_id /\ TextLess(a.timestamp, b.timestamp)

\* C20: every stored row has a device_id, a tds, a timestamp and a
\* created_at; an append_reading given None for device_id or for tds ends
\* in a failure and leaves the table as it was; every append_reading takes
\* created_at from the clock, and its timestamp too unless it was given one.
C20_RequiredColumnsNotNull ==
    [][/\ \A r \in rows' :
            /\ r.device_id \in STRING
            /\ r.tds \in Int
            /\ r.timestamp.rd \in Int
            /\ r.created_at.rd \in Int
       /\ \A c \in Callers :
            /\ (op[c] = "append_reading" /\ pc[c] = "crit" /\ arg[c].nulls # {} /\ Steps(c)) =>
                   /\ pc'[c] = "failed"
                   /\ result'[c].status = "raised"
                   /\ rows' = rows
            /\ Finishes(c, "append_reading") => arg[c].nulls = {}
            /\ (pc[c] = "idle" /\ op'[c] = "append_reading") =>
                   /\ arg'[c].reading[1].created_at = IsoFormat(Now)
                   /\ arg'[c].reading[1].timestamp
                          \in {IsoFormat(Now), ZFormat(0), IsoFormat(tz - DayMinutes)}
      ]_vars

\* An append_reading that was given None has failed on a store that holds
\* a reading.
C20_Witness ==
    /\ op["maint"] = "append_reading"
    /\ pc["maint"] = "failed"
    /\ rows # {}

\* The status the three-way rule gives to tds: Good below good, Moderate
\* from good up to but not including moderate, Poor from moderate up.
IsStatusOf(status, tds, good, moderate) ==
    /\ status \in {"Good", "Moderate", "Poor"}
    /\ status = "Good" <=> tds < good
    /\ status = "Moderate" <=> (good <= tds /\ tds < moderate)
    /\ status = "Poor" <=> tds >= moderate

C21_StatsAreOneSnapshot ==
    \A c \in Callers :
        (op[c] = "get_stats" /\ pc[c] = "done") =>
            LET st == result[c].stats IN
            /\ st.total_readings = 0 <=> st.total_devices = 0
            /\ st.total_readings = 0 <=> IsNone(st.earliest)
            /\ st.total_readings = 0 <=> IsNone(st.latest)
            /\ st.total_devices <= st.total_readings
            /\ st.total_readings > 0 =>
                   /\ TextLeq(st.earliest[1], st.latest[1])
                   /\ st.earliest # st.latest => st.total_readings >= 2

\* C22: a store operation that has returned to its caller, normally or
\* with a failure raised inside its critical section, has closed the
\* connection it opened and has given back the lock it took.
C22_NoConnectionAcrossCalls ==
    \A c \in Callers :
        pc[c] \in {"done", "failed"} =>
            /\ c \notin conns
            /\ db_lock[ProcOf(c)] # Some(c)

\* C23: last_n_readings returns at most limit rows; when more than limit
\* stored readings match the filters, the rows returned are limit of the
\* matching readings and no reading left out has a timestamp above that of
\* a reading returned; the rows come in ascending timestamp order.
C23_LimitKeepsTheNewest ==
    \A c \in Callers :
        (op[c] = "last_n_readings" /\ pc[c] = "done") =>
            LET m == Matching(rows, Now, arg[c].minutes, arg[c].device_id)
                s == result[c].table
                kept == {s[i] : i \in DOMAIN s}
            IN  /\ Len(s) <= arg[c].limit
                /\ Cardinality(m) > arg[c].limit =>
                       /\ Len(s) = arg[c].limit
                       /\ Cardinality(kept) = arg[c].limit
                       /\ kept \subseteq m
                       /\ \A x \in kept, y \in m \ kept : TextLeq(y.timestamp, x.timestamp)
                /\ \A i, j \in DOMAIN s : i < j => s[i].timestamp.rd <= s[j].timestamp.rd

\* Two readings of different timestamps match, the limit is one, and the
\* call returned the later reading alone.
C23_Witness ==
    \E c \in Callers :
        /\ op[c] = "last_n_readings" /\ pc[c] = "done"
        /\ arg[c].limit = 1
        /\ LET m == Matching(rows, Now, arg[c].minutes, arg[c].device_id) IN
           /\ Cardinality(m) = 2
           /\ \E x, y \in m :
                 /\ TextLess(y.timestamp, x.timestamp)
                 /\ result[c].table = <<x>>

====
